---- MODULE Spec2Model ----
(***************************************************************************)
(* Model of the S3 CSV fastsync extractor                                  *)
(* (pipelinewise/fastsync/commons/tap_s3_csv.py): FastSyncTapS3Csv with    *)
(* its per-table watermark map, and S3Helper's listing filter.             *)
(*                                                                         *)
(* One engine instance runs copy_table for one table at a time.  A run is  *)
(* split at the points where the code can raise: every resumption of the   *)
(* get_input_files_for_table generator, every attempt of get_file_handle,  *)
(* the row iteration of one object, and the write of the artifact.        *)
(* Between runs the bucket, which is owned by the object store, may        *)
(* change.                                                                 *)
(***************************************************************************)
EXTENDS Integers, Sequences, FiniteSets, TLC

\* ------------------------------------------------------------------ bounds
\* LastModified timestamps are 1..MaxTime.
MaxTime == 2
\* An object's body holds at most MaxRows rows.
MaxRows == 2
MaxScan == 3

\* ------------------------------------------------------- program constants
\* backoff.on_exception(..., max_tries=5, ...)
max_tries == 5
\* max_files_before_log = 30000
max_files_before_log == 30000

\* --------------------------------------------------------------- the data
\* Python's None and a present datetime, as an optional value.
None == <<>>
Some(t) == <<t>>
IsSome(o) == o # None
Val(o) == o[1]

Times == 1..MaxTime

\* Object keys, in the order list_objects_v2 returns them (ascending by key).
KeyOrder == <<"a.csv", "b.csv">>
Keys == {KeyOrder[i] : i \in 1..Len(KeyOrder)}

\* Size 0 is an empty object; any other size is a non-empty one.
Sizes == {0, 1}

S3Objects == [Key : Keys, Size : Sizes, LastModified : Times]

\* connection_config['tables']: table_name -> search_pattern.
TableNames == {"csv", "a", "bad"}
search_pattern == [t \in TableNames |->
                     CASE t = "csv" -> "\\.csv$"
                       [] t = "a"   -> "^a"
                       [] OTHER     -> "["]

\* re.compile(pattern): whether the pattern is a valid regular expression.
Compiles(pattern) == pattern # "["

\* matcher.search(key) for the patterns and keys above.
Search(pattern, key) ==
    \/ pattern = "\\.csv$" /\ key \in {"a.csv", "b.csv"}
    \/ pattern = "^a" /\ key \in {"a.csv"}

\* connection_config['start_date'] is an ISO string; strptime_with_tz parses
\* it into a datetime, datetime.isoformat() prints one.
IsoStrings == [iso : 0..MaxTime]
strptime_with_tz(s) == s.iso
isoformat(t) == [iso |-> t]
StartDates == {isoformat(0), isoformat(1)}

\* What the listing probe of __init__ can raise: a ClientError of the store, or
\* an error of another class (no credentials were found).
ProbeErrors == {"ClientError", "NoCredentialsError"}

\* The error codes of the ClientErrors the store raises: a throttling error
\* is transient, a missing bucket or key is not.
TransientCodes == {"SlowDown"}
ListingCodes == {"SlowDown", "NoSuchBucket"}
ObjectCodes == {"SlowDown", "NoSuchKey"}

\* The column names of a source file.  An object's body is its columns and
\* its number of rows.
ColumnSets == {{"id"}, {"Name", "name"}}
Bodies == [columns : ColumnSets, rows : 0..MaxRows]

\* utils.safe_column_name: the name quoted and in upper case.
safe_column_name(k) ==
    CASE k = "id"   -> "\"ID\""
      [] k = "Name" -> "\"NAME\""
      [] k = "name" -> "\"NAME\""

\* The keys of custom_columns in _get_file_records.
CustomColumns ==
    {"_sdc_source_bucket", "_sdc_source_file", "_sdc_source_lineno",
     "_SDC_EXTRACTED_AT", "_SDC_BATCHED_AT", "_SDC_DELETED_AT"}

\* The column names a record can have, in the order of Python's string
\* comparison (by code point).
ColumnOrder ==
    <<"\"ID\"", "\"NAME\"", "_SDC_BATCHED_AT", "_SDC_DELETED_AT", "_SDC_EXTRACTED_AT",
      "_sdc_source_bucket", "_sdc_source_file", "_sdc_source_lineno">>

\* sorted(list(headers))
sorted(S) == SelectSeq(ColumnOrder, LAMBDA c : c \in S)

VARIABLES
    bucket,                 \* the objects in the bucket (a set of S3Objects)
    start_date,             \* connection_config['start_date']
    tables_last_modified,   \* self.tables_last_modified: a dict table -> datetime | None
    pc,                     \* position of the engine
    table_name,             \* copy_table's argument
    modified_since,         \* copy_table's local
    cursor,                 \* objects the listing generator has produced so far
    matched_files_count,    \* the filter generator's counters
    unmatched_files_count,
    s3_file,                \* the loop variable of copy_table
    tries,                  \* attempt number, in the retry decorator, of the store call
                            \* in progress or just made
    client_error,           \* the code of the ClientError that call last raised
    diagnostics,            \* the matched/unmatched diagnostics the filter has logged
    probe,                  \* history: how __init__'s listing probe ended
    setup_done,             \* history: whether setup_aws_client created a session
    records,                \* copy_table's accumulated records
    headers,                \* copy_table's set of observed column names
    max_last_modified,      \* copy_table's local
    artifact,               \* the file at file_path
    error,                  \* the exception a failed run ended with
    fetched,                \* the last result of fetch_current_incremental_key_pos
    yielded,                \* history: what the filter generator has yielded in this run
    prior,                  \* history: tables_last_modified when the run started
    bodies                  \* history: the bodies get_file_handle returned in this run;
                            \* the last one is the stream being read

vars == <<bucket, start_date, tables_last_modified, pc, table_name, modified_since,
          cursor, matched_files_count, unmatched_files_count, s3_file, tries,
          client_error, diagnostics, probe, setup_done,
          records, headers, max_last_modified, artifact, error, fetched, yielded,
          prior, bodies>>

\* ------------------------------------------------------------ the helpers
\* A bucket holds at most one object per key.
Buckets ==
    {{[Key |-> k, Size |-> f[k].Size, LastModified |-> f[k].LastModified] :
        k \in {k \in Keys : f[k].Present}} :
     f \in [Keys -> [Present : BOOLEAN, Size : Sizes, LastModified : Times]]}

ObjectAt(b, k) == CHOOSE o \in b : o.Key = k

\* list_files_in_bucket: the bucket's objects as the paginator yields them.
list_files_in_bucket(b) ==
    LET present == SelectSeq(KeyOrder, LAMBDA k : \E o \in b : o.Key = k)
    IN  [i \in 1..Len(present) |-> ObjectAt(b, present[i])]

NoFile == [key |-> "", last_modified |-> 0]
NoResult == [kind |-> "none", modified_since |-> isoformat(0)]
NoArtifact == [state |-> "absent", header |-> <<>>, rows |-> <<>>]

\* ------------------------------------------------------ the listing filter
\* Variants of Classify with one line changed, used to show that the
\* properties below depend on it: the counter incremented only for yielded
\* objects, <= for <, the pattern tested before the size, and no size test.
ClassifyCountsYieldedOnly(o, pattern, since) ==
    IF o.Size = 0 THEN "empty"
    ELSE IF Search(pattern, o.Key) /\ since < o.LastModified THEN "yield"
         ELSE "unmatched"

ClassifyInclusive(o, pattern, since) ==
    IF o.Size = 0 THEN "empty"
    ELSE IF Search(pattern, o.Key)
         THEN IF since <= o.LastModified THEN "yield" ELSE "excluded"
         ELSE "unmatched"

ClassifyPatternFirst(o, pattern, since) ==
    IF Search(pattern, o.Key)
    THEN IF o.Size # 0 /\ since < o.LastModified THEN "yield" ELSE "excluded"
    ELSE IF o.Size = 0 THEN "empty" ELSE "unmatched"

ClassifyNoSizeTest(o, pattern, since) ==
    IF Search(pattern, o.Key)
    THEN IF since < o.LastModified THEN "yield" ELSE "excluded"
    ELSE "unmatched"

\* get_input_files_for_table, one object of the loop: what the filter does
\* with the object.
\*   "empty"     size 0: skipped, counted as unmatched
\*   "unmatched" the key does not match the pattern
\*   "excluded"  matched, counted, but not newer than modified_since
\*   "yield"     matched, counted and yielded
Classify(o, pattern, since) ==
    IF o.Size = 0 THEN "empty"
    ELSE IF Search(pattern, o.Key)
         THEN IF since < o.LastModified THEN "yield" ELSE "excluded"
         ELSE "unmatched"

\* The end of an iteration of the loop that reached the line
\* `if (unmatched_files_count + matched_files_count) % max_files_before_log == 0`:
\* the diagnostics it logs, escalated when more than half of the objects are
\* unmatched.
Diagnostic(m, u) ==
    IF (u + m) % max_files_before_log = 0
    THEN <<[matched |-> m, unmatched |-> u, escalated |-> 2 * u > m + u]>>
    ELSE <<>>

\* One iteration of the loop up to its `continue`, its `yield` or its end: the
\* counters and the diagnostics it logs. An empty object leaves the iteration
\* at `continue`, and a yielded one suspends the generator, before the
\* diagnostic line is reached.
FilterStep(o, m, u, pattern, since) ==
    LET c == Classify(o, pattern, since)
        m2 == IF c \in {"excluded", "yield"} THEN m + 1 ELSE m
        u2 == IF c \in {"empty", "unmatched"} THEN u + 1 ELSE u
    IN  [class |-> c, matched |-> m2, unmatched |-> u2,
         logs |-> IF c \in {"unmatched", "excluded"} THEN Diagnostic(m2, u2) ELSE <<>>]

\* The generator resumed after a yield: the iteration that yielded goes on to
\* the diagnostic line.
AfterYield(m, u) == Diagnostic(m, u)

\* The generator running with i objects of the listing consumed, the counters
\* m, u and the diagnostics d logged so far: it runs to its next yield
\* (more = TRUE) or to the end of the listing (more = FALSE).
RECURSIVE Scan(_, _, _, _, _, _, _)
Scan(listing, i, m, u, d, pattern, since) ==
    IF i = Len(listing)
    THEN [cursor |-> i, matched |-> m, unmatched |-> u, logs |-> d, more |-> FALSE,
          out |-> NoFile]
    ELSE LET o == listing[i + 1]
             r == FilterStep(o, m, u, pattern, since)
         IN  IF r.class = "yield"
             THEN [cursor |-> i + 1, matched |-> r.matched, unmatched |-> r.unmatched,
                   logs |-> d, more |-> TRUE,
                   out |-> [key |-> o.Key, last_modified |-> o.LastModified]]
             ELSE Scan(listing, i + 1, r.matched, r.unmatched, d \o r.logs, pattern, since)

\* Variant of NoFilesFound: raised only when nothing at all was listed.
NoFilesListed(m, u) == m + u = 0

\* The end of the generator: `if 0 == matched_files_count: raise Exception(...)`.
NoFilesFound(m, u) == m = 0

\* The generator's next resumption in the current state.
Resume ==
    Scan(list_files_in_bucket(bucket), cursor, matched_files_count, unmatched_files_count,
         diagnostics \o (IF s3_file # NoFile
                         THEN AfterYield(matched_files_count, unmatched_files_count)
                         ELSE <<>>),
         search_pattern[table_name], modified_since)

\* ----------------------------------------------------------- copy_table
\* Variant of TrackMax: the last object's last_modified, not the maximum.
TrackLast(mlm, lm) == Some(lm)

\* `if max_last_modified is None or max_last_modified < s3_file['last_modified']`
TrackMax(mlm, lm) ==
    IF mlm = None \/ Val(mlm) < lm THEN Some(lm) ELSE mlm

\* `self.tables_last_modified[table_name] = max_last_modified`
SetLastModified(wm, t, mlm) == (t :> mlm) @@ wm

\* `record = {**new_row, **custom_columns}`: the keys of a record made from a
\* row with the columns cols.
RecordKeys(cols) == {safe_column_name(k) : k \in cols} \cup CustomColumns

\* Variants of AppendRows: the line number restarts with every object; the
\* first row of every object is skipped.
AppendRowsLinenoPerObject(recs, s3_path, body, n) ==
    recs \o [i \in 1..n |->
               [sdc_source_file |-> s3_path, sdc_source_lineno |-> i,
                source_row |-> i, keys |-> {safe_column_name(k) : k \in body.columns}
                                            \cup CustomColumns]]

AppendRowsSkipsFirst(recs, s3_path, body, n) ==
    recs \o [i \in 1..(n - 1) |->
               [sdc_source_file |-> s3_path, sdc_source_lineno |-> Len(recs) + i,
                source_row |-> i + 1, keys |-> {safe_column_name(k) : k \in body.columns}
                                                \cup CustomColumns]]

\* _get_file_records: the first n rows of the body of the object s3_path
\* appended to records, each with its provenance columns.  source_row stands
\* for the values of the row.
AppendRows(recs, s3_path, body, n) ==
    recs \o [i \in 1..n |->
               [sdc_source_file |-> s3_path, sdc_source_lineno |-> Len(recs) + i,
                source_row |-> i, keys |-> RecordKeys(body.columns)]]

\* Variant of UpdateHeaders: the headers are taken from the first records only.
UpdateHeadersOnce(hdrs, new) ==
    IF hdrs = {} THEN UNION {new[i].keys : i \in 1..Len(new)} ELSE hdrs

\* `headers.update(record.keys())` for each of the records new.
UpdateHeaders(hdrs, new) == hdrs \cup UNION {new[i].keys : i \in 1..Len(new)}

\* The records AppendRows has added to recs.
Added(recs, recs2) == SubSeq(recs2, Len(recs) + 1, Len(recs2))

\* fetch_current_incremental_key_pos(table): {} for a table not in the dict,
\* {'modified_since': iso} for a datetime, and None.isoformat() raises.
fetch_current_incremental_key_pos(wm, t) ==
    IF t \in DOMAIN wm
    THEN IF wm[t] = None
         THEN [kind |-> "AttributeError", modified_since |-> isoformat(0)]
         ELSE [kind |-> "value", modified_since |-> isoformat(Val(wm[t]))]
    ELSE [kind |-> "empty", modified_since |-> isoformat(0)]

\* ------------------------------------------------------------- the state
Init ==
    /\ bucket \in Buckets
    /\ start_date \in StartDates
    /\ tables_last_modified = <<>>
    /\ pc = "new"
    /\ table_name = ""
    /\ modified_since = 0
    /\ cursor = 0
    /\ matched_files_count = 0
    /\ unmatched_files_count = 0
    /\ s3_file = NoFile
    /\ tries = 0
    /\ client_error = ""
    /\ diagnostics = <<>>
    /\ probe = ""
    /\ setup_done = FALSE
    /\ records = <<>>
    /\ headers = {}
    /\ max_last_modified = None
    /\ artifact = NoArtifact
    /\ error = ""
    /\ fetched = NoResult
    /\ yielded = <<>>
    /\ prior = <<>>
    /\ bodies = <<>>

\* What a run leaves alone.
Config == <<bucket, start_date>>
Filter == <<cursor, matched_files_count, unmatched_files_count, s3_file, yielded,
            diagnostics>>
Call == <<tries, client_error>>
Construction == <<probe, setup_done>>

\* A run ends with the exception e.
Raise(e) ==
    /\ pc' = "failed"
    /\ error' = e

\* ------------------------------------------------------------- __init__
RunLocals == <<table_name, modified_since, Filter, records, headers, max_last_modified,
               artifact, fetched, prior, bodies>>

\* `list(S3Helper.list_files_in_bucket(...))` enumerates the bucket without an
\* error: setup_aws_client is not called.
ProbeSucceeds ==
    /\ pc = "new"
    /\ probe' = "ok"
    /\ pc' = "constructed"
    /\ UNCHANGED <<Config, tables_last_modified, RunLocals, Call, setup_done, error>>

\* Variant of ProbeRaises: `except ClientError:` in place of the bare `except:`.
ProbeRaisesClientErrorOnly(e) ==
    /\ pc = "new"
    /\ probe' = e
    /\ IF e = "ClientError"
       THEN pc' = "setup" /\ tries' = 1 /\ error' = error
       ELSE pc' = "construct_failed" /\ tries' = tries /\ error' = e
    /\ UNCHANGED <<Config, tables_last_modified, RunLocals, client_error, setup_done>>

\* The probe raises: the bare `except:` catches whatever it is and calls
\* setup_aws_client.
ProbeRaises(e) ==
    /\ pc = "new"
    /\ probe' = e
    /\ pc' = "setup"
    /\ tries' = 1
    /\ error' = error
    /\ UNCHANGED <<Config, tables_last_modified, RunLocals, client_error, setup_done>>

\* setup_aws_client creates the default session from the access keys.
SetupAwsClient ==
    /\ pc = "setup"
    /\ setup_done' = TRUE
    /\ client_error' = ""
    /\ pc' = "constructed"
    /\ UNCHANGED <<Config, tables_last_modified, RunLocals, tries, probe, error>>

\* setup_aws_client raises a ClientError before the last attempt: the retry
\* decorator calls it again.
SetupAwsClientRetry(code) ==
    /\ pc = "setup"
    /\ tries < max_tries
    /\ tries' = tries + 1
    /\ client_error' = code
    /\ UNCHANGED <<Config, tables_last_modified, RunLocals, pc, Construction, error>>

\* setup_aws_client raises a ClientError on the last attempt: __init__ raises.
SetupAwsClientGivesUp(code) ==
    /\ pc = "setup"
    /\ tries = max_tries
    /\ client_error' = code
    /\ pc' = "construct_failed"
    /\ error' = "ClientError"
    /\ UNCHANGED <<Config, tables_last_modified, RunLocals, tries, Construction>>

\* `config['aws_access_key_id']` or `config['aws_secret_access_key']` is
\* missing: the KeyError is not retried and __init__ raises.
SetupAwsClientKeyError ==
    /\ pc = "setup"
    /\ pc' = "construct_failed"
    /\ error' = "KeyError"
    /\ UNCHANGED <<Config, tables_last_modified, RunLocals, Call, Construction>>

\* The rest of __init__: `self.tables_last_modified = {}`; the object is ready
\* for copy_table.
FinishInit ==
    /\ pc = "constructed"
    /\ tables_last_modified' = <<>>
    /\ pc' = "idle"
    /\ tries' = 0
    /\ client_error' = ""
    /\ probe' = ""
    /\ setup_done' = FALSE
    /\ UNCHANGED <<Config, RunLocals, error>>

\* ------------------------------------------------------------ copy_table
\* copy_table(table_name, file_path), up to the for loop: the generator is
\* created and has not run yet; file_path names a file that does not exist.
StartCopyTable(t) ==
    /\ pc = "idle"
    /\ pc' = "listing"
    /\ table_name' = t
    /\ modified_since' = strptime_with_tz(start_date)
    /\ records' = <<>>
    /\ headers' = {}
    /\ max_last_modified' = None
    /\ prior' = tables_last_modified
    /\ fetched' = NoResult
    /\ UNCHANGED <<Construction, Config, tables_last_modified, Filter, Call, artifact, error, bodies>>

\* The generator's first resumption with a pattern re.compile rejects.
CompileRaises ==
    /\ pc = "listing"
    /\ ~Compiles(search_pattern[table_name])
    /\ Raise("ValueError")
    /\ UNCHANGED <<Construction, Config, tables_last_modified, table_name, modified_since, Filter,
                   Call, records, headers, max_last_modified, artifact, fetched, prior, bodies>>

\* The paginator raises a ClientError while the generator asks for a page.
\* list_files_in_bucket is a generator function: the retry decorator wraps the
\* call that creates the generator, not its iteration, so the error reaches
\* copy_table.
ListRaises(code) ==
    /\ pc = "listing"
    /\ Compiles(search_pattern[table_name])
    /\ cursor = 0 \/ cursor < Len(list_files_in_bucket(bucket))
    /\ tries' = 1
    /\ client_error' = code
    /\ Raise("ClientError")
    /\ UNCHANGED <<Construction, Config, tables_last_modified, table_name, modified_since, Filter,
                   records, headers, max_last_modified, artifact, fetched, prior, bodies>>

\* The generator yields the next accepted object.
NextFileYields ==
    /\ pc = "listing"
    /\ Compiles(search_pattern[table_name])
    /\ Resume.more
    /\ cursor' = Resume.cursor
    /\ matched_files_count' = Resume.matched
    /\ unmatched_files_count' = Resume.unmatched
    /\ s3_file' = Resume.out
    /\ yielded' = Append(yielded, Resume.out)
    /\ diagnostics' = Resume.logs
    /\ tries' = 1
    /\ client_error' = ""
    /\ pc' = "opening"
    /\ UNCHANGED <<Construction, Config, tables_last_modified, table_name, modified_since,
                   records, headers, max_last_modified, artifact, error, fetched, prior, bodies>>

\* The generator reaches the end of the listing with nothing matched.
NextFileRaises ==
    /\ pc = "listing"
    /\ Compiles(search_pattern[table_name])
    /\ ~Resume.more
    /\ NoFilesFound(Resume.matched, Resume.unmatched)
    /\ cursor' = Resume.cursor
    /\ matched_files_count' = Resume.matched
    /\ unmatched_files_count' = Resume.unmatched
    /\ diagnostics' = Resume.logs
    /\ Raise("NoFilesFound")
    /\ UNCHANGED <<Construction, Config, tables_last_modified, table_name, modified_since, s3_file,
                   yielded, Call, records, headers, max_last_modified, artifact, fetched, prior, bodies>>

\* The generator ends; the loop is over and copy_table records the watermark.
EndOfLoop ==
    /\ pc = "listing"
    /\ Compiles(search_pattern[table_name])
    /\ ~Resume.more
    /\ ~NoFilesFound(Resume.matched, Resume.unmatched)
    /\ cursor' = Resume.cursor
    /\ matched_files_count' = Resume.matched
    /\ unmatched_files_count' = Resume.unmatched
    /\ diagnostics' = Resume.logs
    /\ tables_last_modified' = SetLastModified(tables_last_modified, table_name, max_last_modified)
    /\ pc' = "writing"
    /\ UNCHANGED <<Construction, Config, table_name, modified_since, s3_file, yielded, Call,
                   records, headers, max_last_modified, artifact, error, fetched, prior, bodies>>

\* get_file_handle(config, s3_file['key']) returns the object's body b.
GetFileHandle(b) ==
    /\ pc = "opening"
    /\ bodies' = Append(bodies, b)
    /\ pc' = "reading"
    /\ client_error' = ""
    /\ UNCHANGED <<Construction, Config, tables_last_modified, table_name, modified_since, Filter, tries,
                   records, headers, max_last_modified, artifact, error, fetched, prior>>

\* Variant of GetFileHandleRetry: the decorator has no max_tries and starts
\* over after the last attempt.
GetFileHandleRetryForever(code) ==
    /\ pc = "opening"
    /\ tries' = (tries % max_tries) + 1
    /\ client_error' = code
    /\ UNCHANGED <<Construction, Config, tables_last_modified, pc, table_name, modified_since, Filter,
                   records, headers, max_last_modified, artifact, error, fetched, prior, bodies>>

\* get_file_handle raises a ClientError before the last attempt: the retry
\* decorator calls it again, whatever the error's code.
GetFileHandleRetry(code) ==
    /\ pc = "opening"
    /\ tries < max_tries
    /\ tries' = tries + 1
    /\ client_error' = code
    /\ UNCHANGED <<Construction, Config, tables_last_modified, pc, table_name, modified_since, Filter,
                   records, headers, max_last_modified, artifact, error, fetched, prior, bodies>>

\* get_file_handle raises a ClientError on the last attempt: the decorator
\* gives up and the error reaches copy_table.
GetFileHandleGivesUp(code) ==
    /\ pc = "opening"
    /\ tries = max_tries
    /\ client_error' = code
    /\ Raise("ClientError")
    /\ UNCHANGED <<Construction, Config, tables_last_modified, table_name, modified_since, Filter, tries,
                   records, headers, max_last_modified, artifact, fetched, prior, bodies>>

\* Variant of GetFileRecords: the artifact is rewritten inside the loop, after
\* each object.
GetFileRecordsWrites(n) ==
    /\ pc = "reading"
    /\ n = bodies[Len(bodies)].rows
    /\ records' = AppendRows(records, s3_file.key, bodies[Len(bodies)], n)
    /\ headers' = UpdateHeaders(headers, Added(records, records'))
    /\ max_last_modified' = TrackMax(max_last_modified, s3_file.last_modified)
    /\ artifact' = [state |-> "complete", header |-> sorted(headers'), rows |-> records']
    /\ pc' = "listing"
    /\ UNCHANGED <<Construction, Config, tables_last_modified, table_name, modified_since, Filter, Call,
                   error, fetched, prior, bodies>>

\* Variant of GetFileRecords: the watermark is recorded inside the loop.
GetFileRecordsCommits(n) ==
    /\ pc = "reading"
    /\ n = bodies[Len(bodies)].rows
    /\ records' = AppendRows(records, s3_file.key, bodies[Len(bodies)], n)
    /\ headers' = UpdateHeaders(headers, Added(records, records'))
    /\ max_last_modified' = TrackMax(max_last_modified, s3_file.last_modified)
    /\ tables_last_modified' =
          SetLastModified(tables_last_modified, table_name, max_last_modified')
    /\ pc' = "listing"
    /\ UNCHANGED <<Construction, Config, table_name, modified_since, Filter, Call,
                   artifact, error, fetched, prior, bodies>>

\* _get_file_records reads the n rows of the body, all of them, then the loop
\* body tracks the maximum last_modified.
GetFileRecords(n) ==
    /\ pc = "reading"
    /\ n = bodies[Len(bodies)].rows
    /\ records' = AppendRows(records, s3_file.key, bodies[Len(bodies)], n)
    /\ headers' = UpdateHeaders(headers, Added(records, records'))
    /\ max_last_modified' = TrackMax(max_last_modified, s3_file.last_modified)
    /\ pc' = "listing"
    /\ UNCHANGED <<Construction, Config, tables_last_modified, table_name, modified_since, Filter, Call,
                   artifact, error, fetched, prior, bodies>>

\* The row iterator raises on row n + 1 of the body, after n rows were appended.
GetFileRecordsRaises(n) ==
    /\ pc = "reading"
    /\ n < bodies[Len(bodies)].rows
    /\ records' = AppendRows(records, s3_file.key, bodies[Len(bodies)], n)
    /\ headers' = UpdateHeaders(headers, Added(records, records'))
    /\ Raise("DataFormatError")
    /\ UNCHANGED <<Construction, Config, tables_last_modified, table_name, modified_since, Filter, Call,
                   max_last_modified, artifact, fetched, prior, bodies>>

\* gzip.open, writeheader and writerows complete.
WriteArtifact ==
    /\ pc = "writing"
    /\ artifact' = [state |-> "complete", header |-> sorted(headers), rows |-> records]
    /\ pc' = "done"
    /\ UNCHANGED <<Construction, Config, tables_last_modified, table_name, modified_since, Filter, Call,
                   records, headers, max_last_modified, error, fetched, prior, bodies>>

\* Writing the artifact raises (or the caller abandons the call) after n of
\* the records were written.
WriteArtifactRaises(n) ==
    /\ pc = "writing"
    /\ artifact' = [state |-> "partial", header |-> sorted(headers),
                    rows |-> SubSeq(records, 1, n)]
    /\ Raise("OSError")
    /\ UNCHANGED <<Construction, Config, tables_last_modified, table_name, modified_since, Filter, Call,
                   records, headers, max_last_modified, fetched, prior, bodies>>

\* The caller asks for a table's watermark between runs.
Fetch(t) ==
    /\ pc = "idle"
    /\ fetched' = fetch_current_incremental_key_pos(tables_last_modified, t)
    /\ UNCHANGED <<Construction, Config, tables_last_modified, pc, table_name, modified_since, Filter,
                   Call, records, headers, max_last_modified, artifact, error, prior, bodies>>

\* copy_table has returned or raised; its locals are gone.
Return ==
    /\ pc \in {"done", "failed"}
    /\ pc' = "idle"
    /\ table_name' = ""
    /\ modified_since' = 0
    /\ cursor' = 0
    /\ matched_files_count' = 0
    /\ unmatched_files_count' = 0
    /\ s3_file' = NoFile
    /\ tries' = 0
    /\ client_error' = ""
    /\ diagnostics' = <<>>
    /\ records' = <<>>
    /\ headers' = {}
    /\ bodies' = <<>>
    /\ max_last_modified' = None
    /\ artifact' = NoArtifact
    /\ error' = ""
    /\ fetched' = NoResult
    /\ yielded' = <<>>
    /\ prior' = tables_last_modified
    /\ UNCHANGED <<Construction, Config, tables_last_modified>>

\* Between runs the store's owner uploads, overwrites or deletes an object.
PutObject(o) ==
    /\ pc = "idle"
    /\ o \notin bucket
    /\ bucket' = {x \in bucket : x.Key # o.Key} \cup {o}
    /\ UNCHANGED <<Construction, start_date, tables_last_modified, pc, table_name, modified_since, Filter,
                   Call, records, headers, max_last_modified, artifact, error, fetched, prior, bodies>>

DeleteObject(k) ==
    /\ pc = "idle"
    /\ \E o \in bucket : o.Key = k
    /\ bucket' = {x \in bucket : x.Key # k}
    /\ UNCHANGED <<Construction, start_date, tables_last_modified, pc, table_name, modified_since, Filter,
                   Call, records, headers, max_last_modified, artifact, error, fetched, prior, bodies>>

Next ==
    \/ ProbeSucceeds
    \/ \E e \in ProbeErrors : ProbeRaises(e)
    \/ SetupAwsClient
    \/ \E code \in TransientCodes : SetupAwsClientRetry(code)
    \/ \E code \in TransientCodes : SetupAwsClientGivesUp(code)
    \/ SetupAwsClientKeyError
    \/ FinishInit
    \/ \E t \in TableNames : StartCopyTable(t)
    \/ CompileRaises
    \/ \E code \in ListingCodes : ListRaises(code)
    \/ NextFileYields
    \/ NextFileRaises
    \/ EndOfLoop
    \/ \E b \in Bodies : GetFileHandle(b)
    \/ \E code \in ObjectCodes : GetFileHandleRetry(code)
    \/ \E code \in ObjectCodes : GetFileHandleGivesUp(code)
    \/ \E n \in 0..MaxRows : GetFileRecords(n)
    \/ \E n \in 0..(MaxRows - 1) : GetFileRecordsRaises(n)
    \/ WriteArtifact
    \/ \E n \in 0..Len(records) : WriteArtifactRaises(n)
    \/ \E t \in TableNames : Fetch(t)
    \/ Return
    \/ \E o \in S3Objects : PutObject(o)
    \/ \E k \in Keys : DeleteObject(k)

Spec == Init /\ [][Next]_vars

\* The steps of copy_table and of the calls it makes. The interpreter keeps
\* executing a call that has started, and the store answers every request
\* with a result or an error: some step of the run is taken as long as one is
\* possible.
RunStep ==
    \/ CompileRaises
    \/ \E code \in ListingCodes : ListRaises(code)
    \/ NextFileYields
    \/ NextFileRaises
    \/ EndOfLoop
    \/ \E b \in Bodies : GetFileHandle(b)
    \/ \E code \in ObjectCodes : GetFileHandleRetry(code)
    \/ \E code \in ObjectCodes : GetFileHandleGivesUp(code)
    \/ \E n \in 0..MaxRows : GetFileRecords(n)
    \/ \E n \in 0..(MaxRows - 1) : GetFileRecordsRaises(n)
    \/ WriteArtifact
    \/ \E n \in 0..Len(records) : WriteArtifactRaises(n)

\* The program alone, run after run over the bucket it was started with.
NextRun ==
    \/ ProbeSucceeds
    \/ \E e \in ProbeErrors : ProbeRaises(e)
    \/ SetupAwsClient
    \/ \E code \in TransientCodes : SetupAwsClientRetry(code)
    \/ \E code \in TransientCodes : SetupAwsClientGivesUp(code)
    \/ SetupAwsClientKeyError
    \/ FinishInit
    \/ \E t \in TableNames : StartCopyTable(t)
    \/ RunStep
    \/ Return

FairSpec == Init /\ [][NextRun]_vars /\ WF_vars(RunStep)

\* ------------------------------------------- the filter, object by object
\* The filter's loop taken one object at a time, started close to the first
\* multiple of max_files_before_log: the counters are those of a listing whose
\* first objects were scanned without a diagnostic being due, and the objects
\* that follow are drawn one by one.
StartCounts ==
    {[matched |-> (max_files_before_log - k) - u, unmatched |-> u] :
        k \in 1..MaxScan,
        u \in {0, max_files_before_log \div 2 - 1, max_files_before_log \div 2 + 1,
               max_files_before_log - MaxScan}}

InitLog ==
    /\ bucket = {}
    /\ start_date \in StartDates
    /\ tables_last_modified = <<>>
    /\ pc = "scanning"
    /\ table_name \in {t \in TableNames : Compiles(search_pattern[t])}
    /\ modified_since = strptime_with_tz(start_date)
    /\ cursor = 0
    /\ \E c \in StartCounts :
          /\ matched_files_count = c.matched
          /\ unmatched_files_count = c.unmatched
    /\ s3_file = NoFile
    /\ tries = 0
    /\ client_error = ""
    /\ diagnostics = <<>>
    /\ probe = ""
    /\ setup_done = FALSE
    /\ records = <<>>
    /\ headers = {}
    /\ max_last_modified = None
    /\ artifact = NoArtifact
    /\ error = ""
    /\ fetched = NoResult
    /\ yielded = <<>>
    /\ prior = <<>>
    /\ bodies = <<>>

NotFilter == <<Config, tables_last_modified, table_name, modified_since, Call, Construction,
               records, headers, max_last_modified, artifact, error, fetched, prior, bodies>>

\* One iteration of the loop for an object that is not yielded.
ScanObject(o) ==
    LET r == FilterStep(o, matched_files_count, unmatched_files_count,
                        search_pattern[table_name], modified_since)
    IN  /\ pc = "scanning"
        /\ cursor < MaxScan
        /\ r.class # "yield"
        /\ cursor' = cursor + 1
        /\ matched_files_count' = r.matched
        /\ unmatched_files_count' = r.unmatched
        /\ diagnostics' = diagnostics \o r.logs
        /\ UNCHANGED <<NotFilter, pc, s3_file, yielded>>

\* One iteration of the loop up to the yield of the object.
YieldObject(o) ==
    LET r == FilterStep(o, matched_files_count, unmatched_files_count,
                        search_pattern[table_name], modified_since)
    IN  /\ pc = "scanning"
        /\ cursor < MaxScan
        /\ r.class = "yield"
        /\ cursor' = cursor + 1
        /\ matched_files_count' = r.matched
        /\ unmatched_files_count' = r.unmatched
        /\ diagnostics' = diagnostics \o r.logs
        /\ s3_file' = [key |-> o.Key, last_modified |-> o.LastModified]
        /\ yielded' = Append(yielded, s3_file')
        /\ pc' = "yielded"
        /\ UNCHANGED NotFilter

\* The consumer asks for the next object: the iteration that yielded goes on
\* to the diagnostic line.
ResumeAfterYield ==
    /\ pc = "yielded"
    /\ diagnostics' = diagnostics \o AfterYield(matched_files_count, unmatched_files_count)
    /\ pc' = "scanning"
    /\ UNCHANGED <<NotFilter, cursor, matched_files_count, unmatched_files_count, s3_file,
                   yielded>>

NextLog ==
    \/ \E o \in S3Objects : ScanObject(o)
    \/ \E o \in S3Objects : YieldObject(o)
    \/ ResumeAfterYield

SpecLog == InitLog /\ [][NextLog]_vars

\* ---------------------------------------------------------- the properties
MaxOf(S) == CHOOSE m \in S : \A x \in S : x <= m
YieldedTimes == {yielded[i].last_modified : i \in 1..Len(yielded)}
YieldedKeys == {yielded[i].key : i \in 1..Len(yielded)}
RecordFiles(recs) == {recs[i].sdc_source_file : i \in 1..Len(recs)}
InRun == pc \in {"listing", "opening", "reading", "writing", "done", "failed"}
HasPrior == table_name \in DOMAIN prior /\ IsSome(prior[table_name])
Matching(o) == Search(search_pattern[table_name], o.Key)

\* C1: when a run completes and at least one object was yielded by the
\* filter, the table's recorded watermark is the maximum last_modified of the
\* yielded objects, whatever their order in the listing.
C1_WatermarkIsMaxOfAccepted ==
    (pc = "done" /\ yielded # <<>>) =>
        /\ table_name \in DOMAIN tables_last_modified
        /\ tables_last_modified[table_name] = Some(MaxOf(YieldedTimes))

\* C1's case: a completed run that accepted two objects, the newer one first.
C1_Witness ==
    /\ pc = "done"
    /\ Len(yielded) >= 2
    /\ yielded[1].last_modified > yielded[2].last_modified

\* C2: a table's watermark, once a datetime, stays a datetime and never
\* decreases, in any step.
C2_WatermarkMonotonic ==
    [][\A t \in DOMAIN tables_last_modified :
         IsSome(tables_last_modified[t]) =>
            /\ t \in DOMAIN tables_last_modified'
            /\ IsSome(tables_last_modified'[t])
            /\ Val(tables_last_modified'[t]) >= Val(tables_last_modified[t])]_vars

\* C3: a run that completes with nothing yielded leaves the watermark map as
\* it was at the start of the run, and fetch_current_incremental_key_pos does
\* not raise for the table and returns the empty result when the table had
\* no entry.
C3_NoUpdateWhenNothingProcessed ==
    (pc = "done" /\ yielded = <<>>) =>
        /\ tables_last_modified = prior
        /\ fetch_current_incremental_key_pos(tables_last_modified, table_name).kind
              # "AttributeError"
        /\ table_name \notin DOMAIN prior =>
              fetch_current_incremental_key_pos(tables_last_modified, table_name).kind
                 = "empty"

\* C4: a run that failed with zero matched objects, a malformed pattern, a
\* row-parse failure or a store error leaves the watermark map as it was at
\* the start of the run.
C4_FailureLeavesWatermark ==
    (pc = "failed" /\ error \in {"NoFilesFound", "ValueError", "DataFormatError", "ClientError"})
        => tables_last_modified = prior

\* C4's case: the second accepted object fails to parse after the first was
\* extracted, for a table that already had a watermark.
C4_Witness ==
    /\ pc = "failed"
    /\ error = "DataFormatError"
    /\ Len(yielded) >= 2
    /\ records # <<>>
    /\ HasPrior

\* C5: a run that failed while the artifact was being written leaves the
\* watermark map as it was at the start of the run.
C5_NoWatermarkBeforeArtifact ==
    (pc = "failed" /\ error = "OSError") => tables_last_modified = prior

\* C6: when the pattern matches the key of no object of the bucket, the run
\* never gets past the listing and writes no artifact, and it fails either
\* with a store error or, once the whole listing was enumerated, with the
\* no-files-found error.
C6_ZeroMatchIsFatal ==
    (InRun /\ Compiles(search_pattern[table_name])
           /\ \A o \in bucket : ~Matching(o)) =>
        /\ pc \in {"listing", "failed"}
        /\ artifact = NoArtifact
        /\ yielded = <<>>
        /\ pc = "failed" =>
              \/ error = "ClientError"
              \/ /\ error = "NoFilesFound"
                 /\ cursor = Len(list_files_in_bucket(bucket))

\* C6's case: the no-files-found failure on a bucket with a non-empty object.
C6_Witness ==
    /\ pc = "failed"
    /\ error = "NoFilesFound"
    /\ \E o \in bucket : o.Size # 0
    /\ \A o \in bucket : ~Matching(o)

\* Some non-empty object matches the pattern and no matching non-empty object
\* is newer than modified_since.
AllAlreadySynced ==
    /\ InRun
    /\ \E o \in bucket : o.Size # 0 /\ Matching(o)
    /\ \A o \in bucket : (o.Size # 0 /\ Matching(o)) => o.LastModified <= modified_since

\* C7: when objects match but all are already synced, nothing is yielded and
\* the run does not fail with the no-files-found error: only a store error
\* or a write error can fail it.
C7_AlreadySyncedIsNotFatal ==
    AllAlreadySynced =>
        /\ yielded = <<>>
        /\ error # "NoFilesFound"
        /\ pc = "failed" => error \in {"ClientError", "OSError"}

\* C7's case: such a run has completed.
C7_Witness == AllAlreadySynced /\ pc = "done"

\* C8: every object the filter yields has last_modified strictly greater
\* than modified_since, and is yielded once.
C8_FilterStrictlyNewer ==
    /\ \A i \in 1..Len(yielded) : yielded[i].last_modified > modified_since
    /\ Cardinality(YieldedKeys) = Len(yielded)

\* C8's case: a completed run that yielded an object and excluded a matching
\* non-empty object whose last_modified equals modified_since.
C8_Witness ==
    /\ pc = "done"
    /\ yielded # <<>>
    /\ \E o \in bucket :
          o.Size # 0 /\ Matching(o) /\ o.LastModified = modified_since

\* C9: in a run for a table that has a prior watermark W, every yielded
\* object has last_modified > W.
C9_BoundFromPriorWatermark ==
    (InRun /\ HasPrior) =>
        \A i \in 1..Len(yielded) :
            yielded[i].last_modified > Val(prior[table_name])

\* C10: an object of size 0 is never yielded, gives no record to the records
\* or the artifact, and the watermark a completed run records is the
\* last_modified of a non-empty object.
C10_EmptyObjectSkipped ==
    InRun =>
        /\ \A o \in bucket : o.Size = 0 =>
              /\ o.Key \notin YieldedKeys
              /\ o.Key \notin RecordFiles(records)
              /\ o.Key \notin RecordFiles(artifact.rows)
        /\ (pc = "done" /\ IsSome(tables_last_modified[table_name])) =>
              \E o \in bucket :
                 /\ o.Size # 0
                 /\ Matching(o)
                 /\ o.LastModified = Val(tables_last_modified[table_name])

\* C10's case: a completed run that accepted an object while a matching empty
\* object was newer than every accepted one.
C10_Witness ==
    /\ pc = "done"
    /\ yielded # <<>>
    /\ \E o \in bucket :
          /\ o.Size = 0
          /\ Matching(o)
          /\ \A t \in YieldedTimes : o.LastModified > t

\* What identifies the source row of each record of recs.
SourceRows(recs) ==
    [i \in 1..Len(recs) |->
       [file |-> recs[i].sdc_source_file, row |-> recs[i].source_row]]

\* The rows of the bodies bs of the objects ys, object after object.
RECURSIVE RowsOf(_, _)
RowsOf(ys, bs) ==
    IF ys = <<>> \/ bs = <<>> THEN <<>>
    ELSE [j \in 1..Head(bs).rows |-> [file |-> Head(ys).key, row |-> j]]
         \o RowsOf(Tail(ys), Tail(bs))

\* The body read for the object with key k in this run.
BodyOf(k) == bodies[CHOOSE i \in 1..Len(bodies) : yielded[i].key = k]

\* The position of a column name in Python's string order.
Position(c) == CHOOSE i \in 1..Len(ColumnOrder) : ColumnOrder[i] = c

\* The objects of the listing the filter is to accept, in listing order.
Accepted ==
    LET listing == list_files_in_bucket(bucket)
        acc == SelectSeq(listing, LAMBDA o : /\ o.Size # 0
                                             /\ Matching(o)
                                             /\ o.LastModified > modified_since)
    IN  [i \in 1..Len(acc) |->
           [key |-> acc[i].Key, last_modified |-> acc[i].LastModified]]

\* C11: in every state of a run the k-th accumulated record has line number
\* k, across object boundaries, and so has the k-th row of the artifact.
C11_LinenoIsPosition ==
    /\ \A k \in 1..Len(records) : records[k].sdc_source_lineno = k
    /\ \A k \in 1..Len(artifact.rows) : artifact.rows[k].sdc_source_lineno = k

\* C11's case: a completed run whose first object gave two records and whose
\* second object gave at least one.
C11_Witness ==
    /\ pc = "done"
    /\ Len(records) >= 3
    /\ records[1].sdc_source_file = records[2].sdc_source_file
    /\ records[3].sdc_source_file # records[1].sdc_source_file

C13_RowsAreAcceptedRowsInOrder ==
    pc = "done" =>
        /\ yielded = Accepted
        /\ Len(bodies) = Len(yielded)
        /\ SourceRows(artifact.rows) = RowsOf(yielded, bodies)

\* C13's case: a completed run over two accepted objects with rows, beside
\* which the artifact is compared.
C13_Witness ==
    /\ pc = "done"
    /\ Len(yielded) = 2
    /\ \A i \in 1..2 : bodies[i].rows >= 1
    /\ bodies[1].rows # bodies[2].rows

\* The run or the construction has ended with an error.
Failed == pc \in {"failed", "construct_failed"}

\* C14: a transient store error in listing, object open or session setup is
\* retried: the operation fails with it only on its 5th attempt.
C14_TransientErrorsRetried ==
    (Failed /\ error = "ClientError" /\ client_error \in TransientCodes) =>
        tries = max_tries

\* C15: a store error for a missing bucket or a missing object is not retried:
\* the call that raised it was attempted once and the run has failed; a
\* malformed pattern fails the run without any store call.
C15_NonTransientNotRetried ==
    /\ (client_error # "" /\ client_error \notin TransientCodes) =>
          (Failed /\ tries = 1)
    /\ (pc = "failed" /\ error = "ValueError") => (tries = 0 /\ cursor = 0)

\* C16: the artifact is written only after the listing was enumerated to its
\* end and every accepted object was extracted; before that, and in a run that
\* failed in listing or extraction, there is no artifact; what is written is
\* the records as they were when writing started.
C16_ArtifactWrittenLast ==
    InRun =>
        /\ (pc \in {"listing", "opening", "reading"}) => artifact = NoArtifact
        /\ (pc = "failed" /\ error # "OSError") => artifact = NoArtifact
        /\ (pc \in {"writing", "done"} \/ artifact # NoArtifact) =>
              /\ cursor = Len(list_files_in_bucket(bucket))
              /\ yielded = Accepted
              /\ Len(bodies) = Len(yielded)
              /\ SourceRows(records) = RowsOf(yielded, bodies)
              /\ artifact.rows = SubSeq(records, 1, Len(artifact.rows))
        /\ pc = "done" => (artifact.state = "complete" /\ artifact.rows = records)

\* C16's case: a completed run that accepted two objects and wrote records.
C16_Witness ==
    /\ pc = "done"
    /\ Len(yielded) = 2
    /\ artifact.rows # <<>>

\* C18: construction probes the listing first; after a successful probe
\* setup_aws_client is not called; after a probe that raised, whatever the
\* error, it is called; construction fails only from setup_aws_client.
C18_ProbeThenFallback ==
    /\ pc = "constructed" => (setup_done <=> probe # "ok")
    /\ pc = "setup" => (probe \in ProbeErrors /\ tries >= 1 /\ ~setup_done)
    /\ pc = "construct_failed" =>
          /\ probe \in ProbeErrors
          /\ tries >= 1
          /\ ~setup_done
          /\ error \in {"ClientError", "KeyError"}
          /\ error = "ClientError" => tries = max_tries

\* C18's case: the probe raised an error that is not a store error and the
\* session was then set up from the access keys.
C18_Witness ==
    /\ pc = "constructed"
    /\ probe = "NoCredentialsError"
    /\ setup_done

\* Some object's key matches the pattern and every such object is empty.
AllMatchingEmpty ==
    /\ InRun
    /\ \E o \in bucket : Matching(o)
    /\ \A o \in bucket : Matching(o) => o.Size = 0

\* C20: when every object whose key matches has size 0, they are counted as
\* unmatched, nothing is matched or yielded, and the run cannot complete: it
\* fails with the no-files-found error (or a store error before that).
C20_OnlyEmptyMatchesIsFatal ==
    AllMatchingEmpty =>
        /\ matched_files_count = 0
        /\ yielded = <<>>
        /\ pc \in {"listing", "failed"}
        /\ pc = "failed" => error \in {"ClientError", "NoFilesFound"}
        /\ (pc = "failed" /\ error = "NoFilesFound") =>
              unmatched_files_count = Len(list_files_in_bucket(bucket))

\* C20's case: the run failed with the no-files-found error over a bucket
\* whose matching objects are all empty.
C20_Witness ==
    /\ AllMatchingEmpty
    /\ pc = "failed"
    /\ error = "NoFilesFound"

\* C17: whenever the total of the two counters reaches a multiple of
\* max_files_before_log, one diagnostic is logged for the object that brought
\* it there, whatever the object; it is the escalated one exactly when more
\* than half of the objects are unmatched. (A yielded object's diagnostic is
\* logged when the generator is resumed.)
C17_DiagnosticEveryN ==
    /\ pc # "yielded" =>
          Len(diagnostics) =
              (matched_files_count + unmatched_files_count) \div max_files_before_log
    /\ \A i \in 1..Len(diagnostics) :
          LET d == diagnostics[i]
          IN  /\ d.matched + d.unmatched = i * max_files_before_log
              /\ d.escalated <=> 2 * d.unmatched > d.matched + d.unmatched

\* A run is between its start and its end.
Running == pc \in {"listing", "opening", "reading", "writing"}

\* C19: every run that has started ends, completed or failed.
C19_RunTerminates == Running ~> (pc \in {"done", "failed"})

\* C19's case: a run failed after the store answered every attempt to open an
\* object with a transient error.
C19_Witness ==
    /\ pc = "failed"
    /\ error = "ClientError"
    /\ client_error \in TransientCodes
    /\ tries = max_tries
    /\ cursor > 0

\* The entries of the watermark map for the tables other than the one of the
\* current run are those the map had when the run started.
OthersUnchanged ==
    InRun =>
        \A t \in TableNames \ {table_name} :
            /\ t \in DOMAIN tables_last_modified <=> t \in DOMAIN prior
            /\ t \in DOMAIN prior => tables_last_modified[t] = prior[t]

\* Between runs, and so across every call of fetch_current_incremental_key_pos,
\* the watermark map is the one the last run left.
FetchLeavesMap == pc = "idle" => tables_last_modified = prior

\* The table of a run that failed had no entry when the run started: no run
\* for it has completed on this instance.
NoCompletedRun ==
    /\ pc = "failed"
    /\ table_name \notin DOMAIN prior

\* C21: a run for a table changes only that table's entry of the watermark
\* map, fetch_current_incremental_key_pos does not change the map, and it
\* returns the empty result for a table that has had no completed run.
C21_OnlyOwnEntryChanges ==
    /\ OthersUnchanged
    /\ FetchLeavesMap
    /\ NoCompletedRun =>
          fetch_current_incremental_key_pos(tables_last_modified, table_name).kind = "empty"

====
